---- MODULE Spec2Model ----
(***************************************************************************)
(* A model of the page-cache and locking core of cmu15-445lab:             *)
(*   src/src/concurrency/lock_manager.cpp    (LockManager)                 *)
(*   src/src/buffer/lru_replacer.cpp         (LRUReplacer)                 *)
(*   src/src/buffer/buffer_pool_manager.cpp  (BufferPoolManager)           *)
(*   src/src/hash/extendible_hash.cpp        (ExtendibleHash)              *)
(* Each subsystem has its own next-state relation and specification; the   *)
(* variables of the other subsystems stay at their initial values.         *)
(***************************************************************************)
EXTENDS Integers, Sequences, FiniteSets, TLC

VARIABLES
    \* ---- lock manager ----
    lock_table_,   \* rid -> [present, list, exclusive_cnt, oldest]
    txns,          \* txn id -> [state, shared, exclusive]
    pc,            \* txn id -> [op, rid]: where the transaction's thread is
    woken,         \* threads notified by cv_.notify_all() that have not re-checked yet
    strict_2PL_,   \* constructor flag
    lockRet,       \* the last call that returned: [txn, op, rid, val]
    \* ---- LRU replacer (stand-alone) ----
    vec_,          \* the list of the replacer: MRU at the front, LRU at the back
    stamp,         \* history: element -> time of its most recent Insert (0: never)
    clock,         \* history: number of Insert calls so far
    lruRet,        \* the last call: [op, arg, ok, value]
    \* ---- extendible hash table (stand-alone) ----
    ht,            \* the table: [I, dirSize, Dir, J, buckets, bucketSize, status]
    ref,           \* history: key -> value of its latest Insert, Absent after Remove
    hashRet,       \* the last call: [op, found]
    \* ---- buffer pool manager ----
    pool_size_,    \* constructor argument
    pages_,        \* frame -> [page_id_, pin_count_, is_dirty_]
    page_table_,   \* ExtendibleHash<page_id_t, Page *>: page id -> frame
    replacer_,     \* the list of the LRUReplacer<Page *>
    free_list_,    \* std::list<Page *>
    next_page_id,  \* the disk manager's next fresh page id
    poolLast,      \* the last call: what it was given, returned and did, in order
    scen           \* history: progress along the eviction scenario of the spec

lockVars == <<lock_table_, txns, pc, woken, strict_2PL_, lockRet>>
lruVars == <<vec_, stamp, clock, lruRet>>

hashVars == <<ht, ref, hashRet>>
poolVars == <<pool_size_, pages_, page_table_, replacer_, free_list_, next_page_id,
              poolLast, scen>>

vars == <<lockVars, lruVars, hashVars, poolVars>>

\* What the operations of one subsystem leave alone.
notLock == <<lruVars, hashVars, poolVars>>
notLRU == <<lockVars, hashVars, poolVars>>
notHash == <<lockVars, lruVars, poolVars>>
notPool == <<lockVars, lruVars, hashVars>>

(***************************************************************************)
(*                               LOCK MANAGER                              *)
(***************************************************************************)

\* Number of transactions; a transaction's id is its index (smaller = older).
NumTxns == 3
\* Number of records.
NumRids == 2
\* Number of transactions and of records in the runs checked for progress.
FairTxns == 4
FairRids == 1

\* The transactions and the records of the run.
TxnIds == DOMAIN txns
Rids == DOMAIN lock_table_

\* What the last call that returned gave back. For Unlock it also tells how
\* things stood when the call was made: behind, the transactions blocked in
\* LockShared or LockExclusive on the record with a request behind the
\* caller's; upgrading, those blocked in LockUpgrade on the record; mode, the
\* mode of the caller's request.
NoRet ==
    [txn |-> 0, op |-> "none", rid |-> 0, val |-> FALSE,
     behind |-> {}, upgrading |-> {}, mode |-> "NONE"]
Ret(t, name, r, v) ==
    [txn |-> t, op |-> name, rid |-> r, val |-> v,
     behind |-> {}, upgrading |-> {}, mode |-> "NONE"]
Idle == [op |-> "idle", rid |-> 0]

\* Request{txn_id, lock_mode, granted}
Request(t, mode, g) == [txn_id |-> t, lock_mode |-> mode, granted |-> g]

\* A value-initialised lock table entry (what lock_table_[rid] creates).
EmptyEntry == [present |-> FALSE, list |-> <<>>, exclusive_cnt |-> 0, oldest |-> 0]

\* Position of the first request of t in the list (0 if there is none): the
\* element the scans of the wait predicates stop at.
FirstOf(list, t) ==
    IF \E i \in 1..Len(list) : list[i].txn_id = t
    THEN CHOOSE i \in 1..Len(list) :
            /\ list[i].txn_id = t
            /\ \A j \in 1..(i-1) : list[j].txn_id # t
    ELSE 0

\* The sequence without its i-th element (std::list::erase).
RemoveAt(s, i) == [j \in 1..(Len(s)-1) |-> IF j < i THEN s[j] ELSE s[j+1]]

\* The wait predicate of LockShared: scanning from the head, a request of
\* another transaction that is not SHARED, or is granted, fails the predicate.
SharedWaitPred(list, t) ==
    LET n == IF FirstOf(list, t) = 0 THEN Len(list) + 1 ELSE FirstOf(list, t)
    IN  \A j \in 1..(n-1) : ~(list[j].lock_mode # "SHARED" \/ list[j].granted)

\* The wait predicate of LockExclusive: no granted request ahead.
ExclusiveWaitPred(list, t) ==
    LET n == IF FirstOf(list, t) = 0 THEN Len(list) + 1 ELSE FirstOf(list, t)
    IN  \A j \in 1..(n-1) : ~list[j].granted

\* The wait predicate of LockUpgrade: the head is t's and nothing behind the
\* head is granted.
UpgradeWaitPred(list, t) ==
    \A i \in 1..Len(list) :
        /\ ~(i = 1 /\ list[i].txn_id # t)
        /\ ~(i # 1 /\ list[i].granted)

\* The wound test of LockShared on an existing entry.
SharedWound(e, t) == e.exclusive_cnt # 0 /\ t > e.oldest

\* The wound test of LockExclusive on an existing entry.
ExclusiveWound(e, t) == t > e.oldest

\* The entry after a request of t is appended (both branches set oldest to t).
Enqueue(e, t, mode) ==
    [e EXCEPT !.present = TRUE,
              !.oldest = t,
              !.list = Append(e.list, Request(t, mode, FALSE))]

\* cur->granted = true on the request the scan stopped at.
GrantFirst(e, t) ==
    [e EXCEPT !.list[FirstOf(e.list, t)].granted = TRUE]

\* The threads blocked in cv_.wait.
Waiting == {t \in TxnIds : pc[t].op # "idle"}

\* cv_.notify_all(): every blocked thread will re-evaluate its predicate.
NotifyAll(except) == Waiting \ {except}

\* After the wait: LockShared grants, records the lock and broadcasts.
SharedGranted(t, r, tbl) ==
    /\ lock_table_' = [tbl EXCEPT ![r] = GrantFirst(tbl[r], t)]
    /\ txns' = [txns EXCEPT ![t].shared = @ \cup {r}]
    /\ pc' = [pc EXCEPT ![t] = Idle]
    /\ woken' = NotifyAll(t)
    /\ lockRet' = Ret(t, "LockShared", r, TRUE)

\* After the wait: LockExclusive grants and counts the exclusive; no notify.
ExclusiveGranted(t, r, tbl) ==
    /\ lock_table_' = [tbl EXCEPT ![r] =
            [GrantFirst(tbl[r], t) EXCEPT !.exclusive_cnt = @ + 1]]
    /\ txns' = [txns EXCEPT ![t].exclusive = @ \cup {r}]
    /\ pc' = [pc EXCEPT ![t] = Idle]
    /\ woken' = woken \ {t}
    /\ lockRet' = Ret(t, "LockExclusive", r, TRUE)

\* After the wait: LockUpgrade flips the head request to EXCLUSIVE.
UpgradeGranted(t, r, tbl) ==
    /\ Len(tbl[r].list) > 0
    /\ lock_table_' = [tbl EXCEPT ![r] =
            [@ EXCEPT !.list[1].lock_mode = "EXCLUSIVE",
                      !.exclusive_cnt = @ + 1]]
    /\ txns' = [txns EXCEPT ![t].shared = @ \ {r}, ![t].exclusive = @ \cup {r}]
    /\ pc' = [pc EXCEPT ![t] = Idle]
    /\ woken' = woken \ {t}
    /\ lockRet' = Ret(t, "LockUpgrade", r, TRUE)

\* The thread blocks in cv_.wait (the predicate was false).
Block(t, r, op, tbl) ==
    /\ lock_table_' = tbl
    /\ pc' = [pc EXCEPT ![t] = [op |-> op, rid |-> r]]
    /\ woken' = woken \ {t}
    /\ UNCHANGED <<txns, lockRet>>

\* A Lock* call by a transaction that is already ABORTED returns false.
LockAborted(t, r, name) ==
    /\ pc[t] = Idle
    /\ txns[t].state = "ABORTED"
    /\ lockRet' = Ret(t, name, r, FALSE)
    /\ UNCHANGED <<lock_table_, txns, pc, woken, strict_2PL_, notLock>>

\* The wound branch: the caller is aborted and nothing is enqueued.
Wounded(t, r, name) ==
    /\ txns' = [txns EXCEPT ![t].state = "ABORTED"]
    /\ lockRet' = Ret(t, name, r, FALSE)
    /\ UNCHANGED <<lock_table_, pc, woken>>

\* The callers' discipline: a transaction asks for a lock on a record only
\* while it holds none on it (a held SHARED lock is strengthened through
\* LockUpgrade). Without it one transaction could append requests without end.
NotHeld(t, r) == r \notin txns[t].shared \cup txns[t].exclusive

\* LockShared(txn, rid) up to its return or its first block in cv_.wait.
LockShared(t, r) ==
    /\ pc[t] = Idle
    /\ txns[t].state = "GROWING"            \* assert
    /\ r \notin txns[t].shared               \* assert
    /\ NotHeld(t, r)
    /\ UNCHANGED <<strict_2PL_, notLock>>
    /\ IF lock_table_[r].present /\ SharedWound(lock_table_[r], t)
       THEN Wounded(t, r, "LockShared")
       ELSE LET tbl == [lock_table_ EXCEPT ![r] = Enqueue(@, t, "SHARED")]
            IN  IF SharedWaitPred(tbl[r].list, t)
                THEN SharedGranted(t, r, tbl)
                ELSE Block(t, r, "LockShared", tbl)

\* LockExclusive(txn, rid) up to its return or its first block in cv_.wait.
LockExclusive(t, r) ==
    /\ pc[t] = Idle
    /\ txns[t].state = "GROWING"            \* assert
    /\ r \notin txns[t].exclusive            \* assert
    /\ NotHeld(t, r)
    /\ UNCHANGED <<strict_2PL_, notLock>>
    /\ IF lock_table_[r].present /\ ExclusiveWound(lock_table_[r], t)
       THEN Wounded(t, r, "LockExclusive")
       ELSE LET tbl == [lock_table_ EXCEPT ![r] = Enqueue(@, t, "EXCLUSIVE")]
            IN  IF ExclusiveWaitPred(tbl[r].list, t)
                THEN ExclusiveGranted(t, r, tbl)
                ELSE Block(t, r, "LockExclusive", tbl)

\* LockUpgrade(txn, rid) up to its return or its first block in cv_.wait.
LockUpgrade(t, r) ==
    /\ pc[t] = Idle
    /\ txns[t].state = "GROWING"            \* assert
    /\ r \in txns[t].shared                  \* assert
    /\ UNCHANGED <<strict_2PL_, notLock>>
    /\ IF UpgradeWaitPred(lock_table_[r].list, t)
       THEN UpgradeGranted(t, r, lock_table_)
       ELSE Block(t, r, "LockUpgrade", lock_table_)

\* A blocked thread re-acquires the mutex (after a broadcast, or spuriously)
\* and re-evaluates its predicate; it returns if the predicate holds and
\* goes back to sleep otherwise.
Wake(t) ==
    /\ pc[t] # Idle
    /\ UNCHANGED <<strict_2PL_, notLock>>
    /\ LET r == pc[t].rid
           list == lock_table_[r].list
       IN  CASE pc[t].op = "LockShared" ->
                    IF SharedWaitPred(list, t)
                    THEN SharedGranted(t, r, lock_table_)
                    ELSE Block(t, r, "LockShared", lock_table_)
             [] pc[t].op = "LockExclusive" ->
                    IF ExclusiveWaitPred(list, t)
                    THEN ExclusiveGranted(t, r, lock_table_)
                    ELSE Block(t, r, "LockExclusive", lock_table_)
             [] OTHER ->
                    IF UpgradeWaitPred(list, t)
                    THEN UpgradeGranted(t, r, lock_table_)
                    ELSE Block(t, r, "LockUpgrade", lock_table_)

\* The transactions blocked in LockShared or LockExclusive on r whose request
\* is behind the first request of t.
BlockedBehind(t, r) ==
    {u \in TxnIds :
        /\ pc[u].op \in {"LockShared", "LockExclusive"} /\ pc[u].rid = r
        /\ FirstOf(lock_table_[r].list, t) # 0
        /\ FirstOf(lock_table_[r].list, u) > FirstOf(lock_table_[r].list, t)}

\* The transactions blocked in LockUpgrade on r.
BlockedUpgrading(r) ==
    {u \in TxnIds : pc[u].op = "LockUpgrade" /\ pc[u].rid = r}

\* The mode of the first request of t on r.
ModeOf(t, r) ==
    LET i == FirstOf(lock_table_[r].list, t)
    IN  IF i = 0 THEN "NONE" ELSE lock_table_[r].list[i].lock_mode

\* What Unlock(t, r) gives back.
UnlockRet(t, r, v) ==
    [Ret(t, "Unlock", r, v) EXCEPT !.behind = BlockedBehind(t, r),
                                   !.upgrading = BlockedUpgrading(r),
                                   !.mode = ModeOf(t, r)]

\* The strict-2PL test of Unlock, as written (a disjunction).
StrictViolation(state) == state # "ABORTED" \/ state # "COMMITTED"

\* The "update oldest" loop of Unlock: oldest is only ever lowered.
UpdateOldest(oldest, list) ==
    LET ids == {list[i].txn_id : i \in 1..Len(list)} \cup {oldest}
    IN  CHOOSE m \in ids : \A x \in ids : m <= x

\* The entry after Unlock erased the first request of t.
EraseFirst(e, t) ==
    LET i == FirstOf(e.list, t)
        rest == IF i = 0 THEN e.list ELSE RemoveAt(e.list, i)
        cnt == IF i # 0 /\ e.list[i].lock_mode # "SHARED"
               THEN e.exclusive_cnt - 1 ELSE e.exclusive_cnt
    IN  [e EXCEPT !.present = TRUE,
                  !.list = rest,
                  !.exclusive_cnt = cnt,
                  !.oldest = UpdateOldest(e.oldest, rest)]

\* Unlock(txn, rid).
Unlock(t, r) ==
    /\ pc[t] = Idle
    /\ r \in txns[t].shared \cup txns[t].exclusive     \* assert
    /\ UNCHANGED <<strict_2PL_, pc, notLock>>
    /\ IF strict_2PL_ /\ StrictViolation(txns[t].state)
       THEN /\ txns' = [txns EXCEPT ![t].state = "ABORTED"]
            /\ lockRet' = UnlockRet(t, r, FALSE)
            /\ UNCHANGED <<lock_table_, woken>>
       ELSE LET i == FirstOf(lock_table_[r].list, t)
                mode == IF i = 0 THEN "NONE" ELSE lock_table_[r].list[i].lock_mode
            IN  /\ lock_table_' = [lock_table_ EXCEPT ![r] = EraseFirst(@, t)]
                /\ txns' = [txns EXCEPT
                      ![t].state = IF @ = "GROWING" THEN "SHRINKING" ELSE @,
                      ![t].shared = IF mode = "SHARED" THEN @ \ {r} ELSE @,
                      ![t].exclusive = IF mode = "EXCLUSIVE" THEN @ \ {r} ELSE @]
                /\ woken' = NotifyAll(t)
                /\ lockRet' = UnlockRet(t, r, TRUE)

\* The transaction manager commits a running transaction (its thread is not
\* inside a lock manager call).
Commit(t) ==
    /\ pc[t] = Idle
    /\ txns[t].state \in {"GROWING", "SHRINKING"}
    /\ txns' = [txns EXCEPT ![t].state = "COMMITTED"]
    /\ UNCHANGED <<lock_table_, pc, woken, strict_2PL_, lockRet, notLock>>

\* The state after construction; flags: the values of the strict-2PL flag,
\* nt and nr: the numbers of transactions and of records.
InitLock(flags, nt, nr) ==
    /\ lock_table_ = [r \in 1..nr |-> EmptyEntry]
    /\ txns = [t \in 1..nt |-> [state |-> "GROWING", shared |-> {}, exclusive |-> {}]]
    /\ pc = [t \in 1..nt |-> Idle]
    /\ woken = {}
    /\ strict_2PL_ \in flags
    /\ lockRet = NoRet

LockCalls == {"LockShared", "LockExclusive", "LockUpgrade"}

NextLock ==
    \/ \E t \in TxnIds, r \in Rids, name \in LockCalls : LockAborted(t, r, name)
    \/ \E t \in TxnIds, r \in Rids : LockShared(t, r)
    \/ \E t \in TxnIds, r \in Rids : LockExclusive(t, r)
    \/ \E t \in TxnIds, r \in Rids : LockUpgrade(t, r)
    \/ \E t \in TxnIds, r \in Rids : Unlock(t, r)
    \/ \E t \in TxnIds : Wake(t)
    \/ \E t \in TxnIds : Commit(t)

(***************************************************************************)
(*                               LRU REPLACER                              *)
(***************************************************************************)

\* Number of distinct values handed to the stand-alone replacer.
NumElems == 3
\* Bound on the number of Insert calls of a run of the stand-alone replacer.
MaxClock == 5

Elems == 1..NumElems

\* The elements of a sequence.
Range(s) == {s[i] : i \in 1..Len(s)}

\* The sequence without the first occurrence of x (the scan-and-erase loop).
EraseValue(s, x) ==
    IF x \in Range(s)
    THEN LET i == CHOOSE i \in 1..Len(s) : s[i] = x /\ \A j \in 1..(i-1) : s[j] # x
         IN  [j \in 1..(Len(s)-1) |-> IF j < i THEN s[j] ELSE s[j+1]]
    ELSE s

\* LRUReplacer::Insert: erase the value if present, then push_front.
LRUInsert(s, x) == <<x>> \o EraseValue(s, x)

\* LRUReplacer::Erase: the list afterwards; the call returns x \in Range(s).
LRUErase(s, x) == EraseValue(s, x)

\* A faulty Victim, for comparison: the front of the list.
LRUVictimFront(s) == s[1]

\* LRUReplacer::Victim on a non-empty list: the loop assigns every element
\* in turn, so value ends as the last one, the back.
LRUVictimValue(s) == s[Len(s)]

\* LRUReplacer::Victim on a non-empty list: pop_back.
LRUVictimRest(s) == SubSeq(s, 1, Len(s) - 1)

NoLruRet == [op |-> "none", arg |-> 0, ok |-> FALSE, value |-> 0]

ReplacerInsert(x) ==
    /\ clock < MaxClock
    /\ vec_' = LRUInsert(vec_, x)
    /\ clock' = clock + 1
    /\ stamp' = [stamp EXCEPT ![x] = clock + 1]
    /\ lruRet' = [op |-> "Insert", arg |-> x, ok |-> TRUE, value |-> 0]
    /\ UNCHANGED notLRU

ReplacerVictim ==
    /\ IF vec_ = <<>>
       THEN /\ vec_' = vec_
            /\ lruRet' = [op |-> "Victim", arg |-> 0, ok |-> FALSE, value |-> 0]
       ELSE /\ vec_' = LRUVictimRest(vec_)
            /\ lruRet' = [op |-> "Victim", arg |-> 0, ok |-> TRUE,
                          value |-> LRUVictimValue(vec_)]
    /\ UNCHANGED <<stamp, clock, notLRU>>

ReplacerErase(x) ==
    /\ vec_' = LRUErase(vec_, x)
    /\ lruRet' = [op |-> "Erase", arg |-> x, ok |-> x \in Range(vec_), value |-> 0]
    /\ UNCHANGED <<stamp, clock, notLRU>>

InitLRU ==
    /\ vec_ = <<>>
    /\ stamp = [x \in Elems |-> 0]
    /\ clock = 0
    /\ lruRet = NoLruRet

NextLRU ==
    \/ \E x \in Elems : ReplacerInsert(x)
    \/ ReplacerVictim
    \/ \E x \in Elems : ReplacerErase(x)

(***************************************************************************)
(*                          EXTENDIBLE HASH TABLE                          *)
(***************************************************************************)

\* Largest key handed to the stand-alone table; a key is its own hash value
\* (std::hash of an int is the identity).
MaxKey == 4
\* Largest bucketSize the stand-alone table is constructed with.
MaxBucketSize == 2
\* Bound on the global depth: an Insert whose split loop asks for a deeper
\* directory stops there with status "overflow".
MaxDepth == 3

Keys == 0..MaxKey
Values == {1, 2}
Absent == 0

\* An empty std::map.
EmptyMap == [k \in {} |-> 0]

\* std::map::insert: an existing key keeps its value.
MapInsert(m, k, v) ==
    IF k \in DOMAIN m THEN m
    ELSE [x \in DOMAIN m \cup {k} |-> IF x = k THEN v ELSE m[x]]

\* std::map::erase(key).
MapErase(m, k) == [x \in DOMAIN m \ {k} |-> m[x]]

\* ExtendibleHash(size): I = 1, Dir = [0, 1], J = [1, 1], two empty buckets.
NewHash(size) ==
    [I |-> 1, dirSize |-> 2,
     Dir |-> [i \in 0..1 |-> i],
     J |-> [b \in 0..1 |-> 1],
     buckets |-> [b \in 0..1 |-> EmptyMap],
     bucketSize |-> size,
     status |-> "ok"]

NumBuckets(h) == Cardinality(DOMAIN h.buckets)

\* HashKey: std::hash<K>()(key) % dirSize (the size_t of a negative int is
\* congruent to it modulo the power of two dirSize).
HashKey(h, k) == k % h.dirSize

\* Find: [found, value].
Find(h, k) ==
    LET m == h.buckets[h.Dir[HashKey(h, k)]]
    IN  IF k \in DOMAIN m THEN [found |-> TRUE, value |-> m[k]]
        ELSE [found |-> FALSE, value |-> Absent]

\* Remove: the table afterwards.
Remove(h, k) ==
    LET b == h.Dir[HashKey(h, k)]
    IN  [h EXCEPT !.buckets[b] = MapErase(@, k)]

\* The directory slot Split redirects to the new bucket:
\* Dir[bucketIndex + dirSize / 2], with the bucket's index, not the slot's.
SplitSlot(h, dirIndex, b, newDirSize) == b + newDirSize \div 2

\* J.size(): the constructor pushes two elements, and nothing ever adds one.
JSize == 2

\* The outcomes of an access past the end of a std::vector (J holds two
\* elements for ever; every split writes J[buckets.size() - 1]): the write
\* lands in memory behind the vector and reads back, or the program dies.
UBOutcomes == {"lands", "crash"}

\* Split(dirIndex), with the outcome ub of its out-of-bounds accesses.
Split(h, dirIndex, ub) ==
    IF ub = "crash" THEN [h EXCEPT !.status = "crashed"]
    ELSE
    LET b == h.Dir[dirIndex]
        nb == NumBuckets(h)
        doubling == h.J[b] = h.I
        I2 == IF doubling THEN h.I + 1 ELSE h.I
        dirSize2 == IF doubling THEN h.dirSize * 2 ELSE h.dirSize
        J2 == [i \in 0..nb |-> IF i = b \/ i = nb THEN h.J[b] + 1 ELSE h.J[i]]
        DirD == IF doubling
                THEN [i \in 0..(dirSize2 - 1) |-> h.Dir[i % h.dirSize]]
                ELSE h.Dir
        slot == SplitSlot(h, dirIndex, b, dirSize2)
        \* a slot past the end of Dir is one more out-of-bounds write
        Dir2 == IF slot < dirSize2 THEN [DirD EXCEPT ![slot] = nb] ELSE DirD
        old == h.buckets[b]
        \* the keys of the split bucket go where the new directory sends them
        Sent(i) == {k \in DOMAIN old : Dir2[k % dirSize2] = i}
        base(i) == IF i = b \/ i = nb THEN EmptyMap ELSE h.buckets[i]
        buckets2 == [i \in 0..nb |->
                        [k \in DOMAIN base(i) \cup Sent(i) |->
                            IF k \in DOMAIN base(i) THEN base(i)[k] ELSE old[k]]]
    IN  [h EXCEPT !.I = I2, !.dirSize = dirSize2, !.J = J2, !.Dir = Dir2,
                  !.buckets = buckets2]

\* buckets[bucketIndex].insert(std::make_pair(key, value)).
InsertPair(m, k, v) == MapInsert(m, k, v)

\* A faulty loop test, for comparison: a bucket counts as full one entry
\* before it reaches bucketSize.
BucketFullEarly(h, b) == Cardinality(DOMAIN h.buckets[b]) + 1 >= h.bucketSize

\* The loop test of InsertAux: buckets[bucketIndex].size() == bucketSize.
BucketFull(h, b) == Cardinality(DOMAIN h.buckets[b]) = h.bucketSize

\* InsertAux: split while the key's bucket is full, then insert.
RECURSIVE InsertAux(_, _, _, _)
InsertAux(h, k, v, ub) ==
    IF h.status # "ok" THEN h
    ELSE LET dirIndex == HashKey(h, k)
             b == h.Dir[dirIndex]
         IN  IF BucketFull(h, b)
             THEN IF h.J[b] = h.I /\ h.I = MaxDepth
                  THEN [h EXCEPT !.status = "overflow"]
                  ELSE InsertAux(Split(h, dirIndex, ub), k, v, ub)
             ELSE [h EXCEPT !.buckets[b] = InsertPair(@, k, v)]

\* The scenario of the spec: Insert of the keys with hashes 0b00, 0b10 and
\* 0b01, in this order, into the table as constructed.
Script == <<0, 2, 1>>

\* History: the number of calls of the scenario made so far, -1 once the run
\* has left it.
ScriptStep(k) ==
    LET s == hashRet.step
    IN  IF s \in 0..(Len(Script) - 1) /\ k = Script[s + 1] THEN s + 1 ELSE -1

\* History: every call so far was an Insert of a key not inserted before.
DistinctStep(k) == hashRet.distinct /\ ref[k] = Absent

NoHashRet == [op |-> "none", found |-> FALSE, step |-> 0, distinct |-> TRUE]

\* Insert(key, value).
HashInsert(k, v) ==
    /\ ht.status = "ok"
    /\ \E ub \in UBOutcomes : ht' = InsertAux(ht, k, v, ub)
    /\ ref' = [ref EXCEPT ![k] = v]
    /\ hashRet' = [op |-> "Insert", found |-> FALSE, step |-> ScriptStep(k),
                   distinct |-> DistinctStep(k)]
    /\ UNCHANGED notHash

\* Remove(key); the call returns whether a binding was erased.
HashRemove(k) ==
    /\ ht.status = "ok"
    /\ ht' = Remove(ht, k)
    /\ ref' = [ref EXCEPT ![k] = Absent]
    /\ hashRet' = [op |-> "Remove", found |-> Find(ht, k).found, step |-> -1,
                   distinct |-> FALSE]
    /\ UNCHANGED notHash

InitHash(sizes) ==
    /\ \E size \in sizes : ht = NewHash(size)
    /\ ref = [k \in Keys |-> Absent]
    /\ hashRet = NoHashRet

NextHash ==
    \/ \E k \in Keys, v \in Values : HashInsert(k, v)
    \/ \E k \in Keys : HashRemove(k)

(***************************************************************************)
(*                           BUFFER POOL MANAGER                           *)
(***************************************************************************)

\* Largest pool size the pool is constructed with.
MaxPoolSize == 2
\* Number of page ids the disk manager hands out in a run.
NumPageIds == 3
\* Bound on a frame's pin count (FetchPage of a resident page pins again).
MaxPin == 2

INVALID_PAGE_ID == -1
\* Bucket size of the page table; no bucket of a pool this small fills up.
BUCKET_SIZE == 50

NoFrame == -1
Frames == 0..(pool_size_ - 1)

\* A Page as constructed and as DeletePage resets it.
FreshPage == [page_id_ |-> INVALID_PAGE_ID, pin_count_ |-> 0, is_dirty_ |-> FALSE]

\* The page ids AllocatePage has handed out.
Allocated == 0..(next_page_id - 1)

\* page_table_->Find / Insert / Remove.
PTFind(pid) == Find(page_table_, pid)
PTInsert(h, pid, f) == InsertAux(h, pid, f, "lands")
\* A faulty page table, for comparison: Remove leaves the binding in place.
PTRemoveNever(h, pid) == h
PTRemove(h, pid) == Remove(h, pid)

Ev(name, pid) == [e |-> name, pid |-> pid]

\* A faulty write-back test, for comparison: never write a victim back.
WriteBackNever(page) == FALSE

\* The write-back test of FetchPage and NewPage.
WriteBackDue(page) == page.is_dirty_

\* The dirty flag UnpinPage leaves: page->is_dirty_ = is_dirty.
UnpinDirty(old, is_dirty) == is_dirty

NoScen == [step |-> -1, pids |-> <<>>, writes |-> <<>>]

\* The scenario of the spec: NewPage; Unpin(p1, true); NewPage;
\* Unpin(p2, false); NewPage, from the pool as constructed. step counts the
\* calls of it made so far, -1 once the run has left it.
ScenStep(op, pid, d, ok, newpid, evs) ==
    LET ws == SelectSeq(evs, LAMBDA x : x.e = "WritePage")
        w == scen.writes \o [i \in 1..Len(ws) |-> ws[i].pid]
        s == scen.step
    IN  IF op = "NewPage" /\ s \in {0, 2, 4} /\ (ok \/ s = 4)
        THEN [step |-> s + 1,
              pids |-> IF ok THEN Append(scen.pids, newpid) ELSE scen.pids,
              writes |-> w]
        ELSE IF /\ op = "UnpinPage" /\ ok
                /\ \/ (s = 1 /\ pid = scen.pids[1] /\ d)
                   \/ (s = 3 /\ pid = scen.pids[2] /\ ~d)
        THEN [step |-> s + 1, pids |-> scen.pids, writes |-> w]
        ELSE NoScen

\* What a call records: its name and arguments, its result (ok; the frame
\* for FetchPage and NewPage), where the frame came from, what the frame
\* held before, and the calls to the disk manager and the page table
\* interleaved with the frame's updates, in program order.
Last(op, pid, d, ok, f, from, before, evs) ==
    [op |-> op, pid |-> pid, dirty |-> d, ok |-> ok, frame |-> f,
     from |-> from, before |-> before, events |-> evs]

Record(op, pid, d, ok, newpid, f, from, before, evs) ==
    /\ poolLast' = Last(op, pid, d, ok, f, from, before, evs)
    /\ scen' = ScenStep(op, pid, d, ok, newpid, evs)

\* FetchPage(page_id).
FetchPage(pid) ==
    /\ UNCHANGED <<pool_size_, next_page_id, notPool>>
    /\ IF pid = INVALID_PAGE_ID
       THEN /\ Record("FetchPage", pid, FALSE, FALSE, pid, NoFrame, "none", FreshPage, <<>>)
            /\ UNCHANGED <<pages_, page_table_, replacer_, free_list_>>
       ELSE IF PTFind(pid).found
       THEN LET f == PTFind(pid).value
            IN  /\ pages_[f].pin_count_ < MaxPin
                /\ pages_' = [pages_ EXCEPT ![f].pin_count_ = @ + 1]
                /\ replacer_' = LRUErase(replacer_, f)
                /\ Record("FetchPage", pid, FALSE, TRUE, pid, f, "hit", pages_[f], <<>>)
                /\ UNCHANGED <<page_table_, free_list_>>
       ELSE IF free_list_ # <<>>
       THEN LET f == Head(free_list_)
            IN  /\ free_list_' = Tail(free_list_)
                /\ page_table_' = PTInsert(page_table_, pid, f)
                /\ pages_' = [pages_ EXCEPT ![f] =
                        [page_id_ |-> pid, pin_count_ |-> 1, is_dirty_ |-> FALSE]]
                /\ Record("FetchPage", pid, FALSE, TRUE, pid, f, "free", pages_[f],
                          <<Ev("SetPageId", pid), Ev("Insert", pid), Ev("ReadPage", pid)>>)
                /\ UNCHANGED replacer_
       ELSE IF replacer_ = <<>>
       THEN /\ Record("FetchPage", pid, FALSE, FALSE, pid, NoFrame, "none", FreshPage, <<>>)
            /\ UNCHANGED <<pages_, page_table_, replacer_, free_list_>>
       ELSE LET f == LRUVictimValue(replacer_)
                old == pages_[f]
            IN  /\ replacer_' = LRUVictimRest(replacer_)
                /\ UNCHANGED free_list_
                /\ IF old.pin_count_ # 0
                   THEN /\ Record("FetchPage", pid, FALSE, FALSE, pid, NoFrame, "victim", old, <<>>)
                        /\ UNCHANGED <<pages_, page_table_>>
                   ELSE /\ page_table_' = PTInsert(PTRemove(page_table_, old.page_id_), pid, f)
                        /\ pages_' = [pages_ EXCEPT ![f] =
                              [page_id_ |-> pid, pin_count_ |-> 1, is_dirty_ |-> FALSE]]
                        /\ Record("FetchPage", pid, FALSE, TRUE, pid, f, "victim", old,
                              (IF WriteBackDue(old)
                               THEN <<Ev("WritePage", old.page_id_)>> ELSE <<>>)
                              \o <<Ev("Remove", old.page_id_), Ev("SetPageId", pid),
                                   Ev("Insert", pid), Ev("ReadPage", pid)>>)

\* NewPage(page_id).
NewPage ==
    /\ UNCHANGED <<pool_size_, notPool>>
    /\ IF free_list_ = <<>> /\ replacer_ = <<>>
       THEN /\ Record("NewPage", INVALID_PAGE_ID, FALSE, FALSE, INVALID_PAGE_ID,
                      NoFrame, "none", FreshPage, <<>>)
            /\ UNCHANGED <<pages_, page_table_, replacer_, free_list_, next_page_id>>
       ELSE LET from == IF free_list_ # <<>> THEN "free" ELSE "victim"
                f == IF free_list_ # <<>> THEN Head(free_list_)
                     ELSE LRUVictimValue(replacer_)
                old == pages_[f]
                pid == next_page_id
            IN  /\ next_page_id < NumPageIds
                /\ next_page_id' = next_page_id + 1
                /\ free_list_' = IF from = "free" THEN Tail(free_list_) ELSE free_list_
                /\ replacer_' = IF from = "free" THEN replacer_
                                ELSE LRUVictimRest(replacer_)
                /\ page_table_' = PTInsert(PTRemove(page_table_, old.page_id_), pid, f)
                /\ pages_' = [pages_ EXCEPT ![f] =
                        [page_id_ |-> pid, pin_count_ |-> 1, is_dirty_ |-> FALSE]]
                /\ Record("NewPage", INVALID_PAGE_ID, FALSE, TRUE, pid, f, from, old,
                        <<Ev("AllocatePage", pid)>>
                        \o (IF WriteBackDue(old)
                            THEN <<Ev("WritePage", old.page_id_)>> ELSE <<>>)
                        \o <<Ev("Remove", old.page_id_), Ev("Insert", pid),
                             Ev("SetPageId", pid), Ev("ResetMemory", pid)>>)

\* UnpinPage(page_id, is_dirty).
UnpinPage(pid, d) ==
    /\ UNCHANGED <<pool_size_, page_table_, free_list_, next_page_id, notPool>>
    /\ IF ~PTFind(pid).found
       THEN /\ Record("UnpinPage", pid, d, FALSE, pid, NoFrame, "none", FreshPage, <<>>)
            /\ UNCHANGED <<pages_, replacer_>>
       ELSE LET f == PTFind(pid).value
            IN  IF pages_[f].pin_count_ <= 0
                THEN /\ Record("UnpinPage", pid, d, FALSE, pid, f, "hit", pages_[f], <<>>)
                     /\ UNCHANGED <<pages_, replacer_>>
                ELSE /\ pages_' = [pages_ EXCEPT
                            ![f].pin_count_ = @ - 1,
                            ![f].is_dirty_ = UnpinDirty(@, d)]
                     /\ replacer_' = IF pages_[f].pin_count_ - 1 <= 0
                                     THEN LRUInsert(replacer_, f) ELSE replacer_
                     /\ Record("UnpinPage", pid, d, TRUE, pid, f, "hit", pages_[f], <<>>)

\* FlushPage(page_id).
FlushPage(pid) ==
    /\ UNCHANGED <<pool_size_, pages_, page_table_, replacer_, free_list_,
                   next_page_id, notPool>>
    /\ IF pid # INVALID_PAGE_ID /\ PTFind(pid).found
       THEN Record("FlushPage", pid, FALSE, TRUE, pid, PTFind(pid).value, "hit",
                   pages_[PTFind(pid).value], <<Ev("WritePage", pid)>>)
       ELSE Record("FlushPage", pid, FALSE, FALSE, pid, NoFrame, "none", FreshPage, <<>>)

\* DeletePage(page_id).
DeletePage(pid) ==
    /\ UNCHANGED <<pool_size_, replacer_, next_page_id, notPool>>
    /\ IF PTFind(pid).found
       THEN LET f == PTFind(pid).value
            IN  IF pages_[f].pin_count_ > 0
                THEN /\ Record("DeletePage", pid, FALSE, FALSE, pid, f, "hit", pages_[f], <<>>)
                     /\ UNCHANGED <<pages_, page_table_, free_list_>>
                ELSE /\ page_table_' = PTRemove(page_table_, pages_[f].page_id_)
                     /\ pages_' = [pages_ EXCEPT ![f] = FreshPage]
                     /\ free_list_' = Append(free_list_, f)
                     /\ Record("DeletePage", pid, FALSE, TRUE, pid, f, "hit", pages_[f],
                               <<Ev("Remove", pages_[f].page_id_), Ev("DeallocatePage", pid)>>)
       ELSE /\ Record("DeletePage", pid, FALSE, TRUE, pid, NoFrame, "none", FreshPage,
                      <<Ev("DeallocatePage", pid)>>)
            /\ UNCHANGED <<pages_, page_table_, free_list_>>

NoLast == Last("none", INVALID_PAGE_ID, FALSE, FALSE, NoFrame, "none", FreshPage, <<>>)

\* BufferPoolManager(pool_size, ...): every frame on the free list, in order.
InitPool(sizes) ==
    /\ pool_size_ \in sizes
    /\ pages_ = [f \in 0..(pool_size_ - 1) |-> FreshPage]
    /\ page_table_ = NewHash(BUCKET_SIZE)
    /\ replacer_ = <<>>
    /\ free_list_ = [i \in 1..pool_size_ |-> i - 1]
    /\ next_page_id = 0
    /\ poolLast = NoLast
    /\ scen = [step |-> 0, pids |-> <<>>, writes |-> <<>>]

NextPool ==
    \/ \E pid \in Allocated \cup {INVALID_PAGE_ID} : FetchPage(pid)
    \/ NewPage
    \/ \E pid \in Allocated, d \in BOOLEAN : UnpinPage(pid, d)
    \/ \E pid \in Allocated \cup {INVALID_PAGE_ID} : FlushPage(pid)
    \/ \E pid \in Allocated : DeletePage(pid)

(***************************************************************************)
(*                              SPECIFICATIONS                             *)
(***************************************************************************)

\* The lock manager, with either setting of the strict-2PL flag.
LockInit == InitLock(BOOLEAN, NumTxns, NumRids) /\ InitLRU /\ InitHash({1}) /\ InitPool({1})
SpecLock == LockInit /\ [][NextLock]_vars

\* The lock manager where every blocked thread that can return from cv_.wait
\* is eventually scheduled and does so, and where every transaction outside
\* a call eventually calls Unlock for each lock it holds.
FairInit ==
    InitLock(BOOLEAN, FairTxns, FairRids) /\ InitLRU /\ InitHash({1}) /\ InitPool({1})
FairLock ==
    /\ FairInit /\ [][NextLock]_vars
    /\ \A t \in 1..FairTxns : WF_vars(Wake(t))
    /\ \A t \in 1..FairTxns, r \in 1..FairRids : WF_vars(Unlock(t, r))

\* The stand-alone replacer.
LRUInit == InitLock({FALSE}, NumTxns, NumRids) /\ InitLRU /\ InitHash({1}) /\ InitPool({1})
SpecLRU == LRUInit /\ [][NextLRU]_vars

\* The stand-alone hash table, constructed with any bucketSize up to the bound.
HashInit ==
    InitLock({FALSE}, NumTxns, NumRids) /\ InitLRU /\ InitHash(1..MaxBucketSize) /\ InitPool({1})
SpecHash == HashInit /\ [][NextHash]_vars

\* The buffer pool manager, constructed with any pool size up to the bound.
PoolInit ==
    InitLock({FALSE}, NumTxns, NumRids) /\ InitLRU /\ InitHash({1}) /\ InitPool(1..MaxPoolSize)
SpecPool == PoolInit /\ [][NextPool]_vars

(***************************************************************************)
(*                      CLAIMS ABOUT THE LOCK MANAGER                      *)
(***************************************************************************)

GrantedIdx(r) == {i \in 1..Len(lock_table_[r].list) : lock_table_[r].list[i].granted}
GrantedMode(r, mode) == {i \in GrantedIdx(r) : lock_table_[r].list[i].lock_mode = mode}

\* C1: in every reachable state each record's request list holds at most one
\* granted EXCLUSIVE request, and never a granted SHARED request together
\* with a granted EXCLUSIVE request.
C1_GrantedCompatible ==
    \A r \in Rids :
        /\ Cardinality(GrantedMode(r, "EXCLUSIVE")) <= 1
        /\ ~(GrantedMode(r, "SHARED") # {} /\ GrantedMode(r, "EXCLUSIVE") # {})

\* Every request ahead of t's request in the list is a granted SHARED request.
AllAheadGrantedShared(list, t) ==
    \A j \in 1..(FirstOf(list, t) - 1) :
        list[j].lock_mode = "SHARED" /\ list[j].granted

\* C5: a LockShared request is granted, without waiting for any Unlock,
\* whenever every request ahead of it is a granted SHARED request: no thread
\* sleeps in LockShared (un-notified) behind granted SHARED requests only.
C5_SharedAdmittedBehindShared ==
    \A t \in TxnIds :
        (pc[t].op = "LockShared" /\ t \notin woken)
            => ~AllAheadGrantedShared(lock_table_[pc[t].rid].list, t)

\* The requests that keep the wait predicate of blocked thread t false.
Offending(t) ==
    LET list == lock_table_[pc[t].rid].list
        n == FirstOf(list, t)
    IN  CASE pc[t].op = "LockShared" ->
                {j \in 1..(n-1) : list[j].lock_mode # "SHARED" \/ list[j].granted}
          [] pc[t].op = "LockExclusive" ->
                {j \in 1..(n-1) : list[j].granted}
          [] pc[t].op = "LockUpgrade" ->
                {j \in 1..Len(list) : \/ (j = 1 /\ list[j].txn_id # t)
                                      \/ (j # 1 /\ list[j].granted)}
          [] OTHER -> {}

\* Every member of D is blocked inside a Lock* call behind a request of
\* another member of D; a blocked thread never unlocks, so none of them can
\* ever be granted.
Deadlocked(D) ==
    /\ D # {}
    /\ \A t \in D :
        /\ pc[t] # Idle
        /\ \E j \in Offending(t) :
              lock_table_[pc[t].rid].list[j].txn_id \in D \ {t}

\* C6: no deadlock is reachable.
C6_NoDeadlock == \A D \in SUBSET TxnIds : ~Deadlocked(D)

\* The first request of t on r is gone from the list and r from t's held sets.
Released(t, r) ==
    /\ FirstOf(lock_table_[r].list, t)' = 0
    /\ r \notin (txns[t].shared \cup txns[t].exclusive)'

\* C7: with strict 2PL enabled, Unlock(T, r) aborts T and returns false
\* exactly when T is neither COMMITTED nor ABORTED; otherwise it keeps T's
\* state, removes T's request and r from T's held set, and returns true.
C7_StrictUnlock ==
    [][\A t \in TxnIds, r \in Rids :
         (strict_2PL_ /\ Unlock(t, r)) =>
            IF txns[t].state \notin {"COMMITTED", "ABORTED"}
            THEN txns'[t].state = "ABORTED" /\ ~lockRet'.val
            ELSE /\ txns'[t].state = txns[t].state
                 /\ Released(t, r)
                 /\ lockRet'.val]_vars

\* The list of r holds an EXCLUSIVE request, granted or waiting.
HasExclusiveRequest(r) ==
    \E i \in 1..Len(lock_table_[r].list) : lock_table_[r].list[i].lock_mode = "EXCLUSIVE"

\* C10: LockShared by T on a record whose entry holds any EXCLUSIVE request
\* (holder or waiter), with T younger than the entry's oldest, aborts T,
\* returns false and appends no request.
C10_SharedWoundedByAnyExclusive ==
    [][\A t \in TxnIds, r \in Rids :
         (/\ LockShared(t, r)
          /\ lock_table_[r].present
          /\ HasExclusiveRequest(r)
          /\ t > lock_table_[r].oldest) =>
            /\ txns'[t].state = "ABORTED"
            /\ lockRet' = Ret(t, "LockShared", r, FALSE)
            /\ lock_table_'[r].list = lock_table_[r].list]_vars

\* The younger transaction lockRet.txn has just called Unlock on a record
\* while the older t1 was blocked on it in LockShared or LockExclusive behind
\* the caller's granted request, and no granted request of a third
\* transaction precedes t1's.
UnlockedAhead(t1) ==
    LET r == lockRet.rid
        list == lock_table_[r].list
    IN  /\ lockRet.op = "Unlock"
        /\ t1 < lockRet.txn
        /\ t1 \in lockRet.behind
        /\ pc[t1].op \in {"LockShared", "LockExclusive"} /\ pc[t1].rid = r
        /\ \A j \in 1..(FirstOf(list, t1) - 1) :
              list[j].granted => list[j].txn_id = lockRet.txn

\* The Lock call of t1 has just returned true: its request is granted.
LockReturnedTrue(t1) ==
    /\ pc[t1] = Idle
    /\ lockRet.txn = t1 /\ lockRet.op \in {"LockShared", "LockExclusive"}
    /\ lockRet.val
    /\ lockRet.rid \in txns[t1].shared \cup txns[t1].exclusive

\* C11: when an older T1 is blocked in LockShared or LockExclusive on r behind
\* a granted request of a younger T2, then after T2 calls Unlock(r), with no
\* other granted request ahead of T1's, T1's request is eventually granted
\* and its call returns true.
C11_OlderWaiterEventuallyGranted ==
    \A t1 \in 1..FairTxns : UnlockedAhead(t1) ~> LockReturnedTrue(t1)

\* The step is the return of LockUpgrade(t1, r).
UpgradeReturns(t1, r) ==
    /\ r \in txns[t1].shared /\ r \notin txns'[t1].shared
    /\ lockRet'.op = "LockUpgrade"

\* Another transaction has just called Unlock on its SHARED lock on a record
\* while t1, which holds a SHARED lock on it too, was and is blocked in
\* LockUpgrade on it.
UnlockedUnderUpgrade(t1) ==
    /\ lockRet.op = "Unlock" /\ lockRet.mode = "SHARED"
    /\ t1 \in lockRet.upgrading
    /\ pc[t1] = [op |-> "LockUpgrade", rid |-> lockRet.rid]

\* The LockUpgrade call of t1 has just returned true.
UpgradeReturnedTrue(t1) ==
    /\ pc[t1] = Idle
    /\ lockRet.txn = t1 /\ lockRet.op = "LockUpgrade" /\ lockRet.val
    /\ lockRet.rid \in txns[t1].exclusive

\* C12: with T1 and T2 both holding SHARED on r, LockUpgrade(T1, r) does not
\* return while another transaction's request on r is granted; it returns
\* true with T1's request EXCLUSIVE and granted, the exclusive count one
\* higher, r moved from T1's shared set to its exclusive set; and once T2
\* has unlocked r it does return.
C12_UpgradeBlocksOnReaders ==
    /\ [][\A t1 \in TxnIds, r \in Rids :
            UpgradeReturns(t1, r) =>
                LET list == lock_table_[r].list
                    i == FirstOf(lock_table_'[r].list, t1)
                IN  /\ \A j \in 1..Len(list) :
                          list[j].granted => list[j].txn_id = t1
                    /\ lockRet' = Ret(t1, "LockUpgrade", r, TRUE)
                    /\ i # 0
                    /\ lock_table_'[r].list[i] = Request(t1, "EXCLUSIVE", TRUE)
                    /\ lock_table_'[r].exclusive_cnt = lock_table_[r].exclusive_cnt + 1
                    /\ r \in txns'[t1].exclusive]_vars
    /\ \A t1 \in 1..FairTxns : UnlockedUnderUpgrade(t1) ~> UpgradeReturnedTrue(t1)

\* C13: with strict 2PL disabled and no other transaction active on r,
\* LockExclusive(T, r) returning true followed by Unlock(T, r) leaves the
\* lock table empty for r: no request, no exclusive count and no remembered
\* oldest transaction id remain, as before any request on r.
C13_LockUnlockLeavesNothing ==
    [][\A t \in TxnIds, r \in Rids :
         (/\ ~strict_2PL_
          /\ lock_table_[r].list = <<Request(t, "EXCLUSIVE", TRUE)>>
          /\ Unlock(t, r)) => lock_table_'[r] = EmptyEntry]_vars

\* C18: in every reachable state, in each record's request list no ungranted
\* request precedes a granted one: the granted requests form a prefix, so
\* requests are granted in the order in which they were appended.
C18_GrantedPrefix ==
    \A r \in Rids :
        LET list == lock_table_[r].list
        IN  \A i \in 1..Len(list), j \in 1..Len(list) :
                (i < j /\ list[j].granted) => list[i].granted

\* The least transaction id among the requests of a list.
MinTxn(list) ==
    CHOOSE m \in {list[i].txn_id : i \in 1..Len(list)} :
        \A i \in 1..Len(list) : m <= list[i].txn_id

\* C19: in every reachable state, every lock-table entry with a non-empty
\* request list has oldest equal to the least transaction id among the
\* requests in the list.
C19_OldestIsMinimum ==
    \A r \in Rids :
        lock_table_[r].list # <<>> =>
            lock_table_[r].oldest = MinTxn(lock_table_[r].list)

\* Every request on r has been removed by Unlock: r has an entry in the lock
\* table, and the entry's list is empty.
Vacated(r) == lock_table_[r].present /\ lock_table_[r].list = <<>>

\* The call of t on r has returned true with its request of this mode granted.
GrantedAtOnce(t, r, name, mode) ==
    /\ lockRet' = Ret(t, name, r, TRUE)
    /\ pc'[t] = Idle
    /\ txns'[t].state = "GROWING"
    /\ lock_table_'[r].list = <<Request(t, mode, TRUE)>>

\* C22: with strict 2PL off, once every request on record r has been removed
\* by Unlock, a LockShared or LockExclusive on r by a transaction in state
\* GROWING, whatever its id, is granted at once and returns true; the caller
\* is not aborted.
C22_VacatedRecordGrantsAnyone ==
    [][\A t \in TxnIds, r \in Rids :
          (~strict_2PL_ /\ Vacated(r) /\ txns[t].state = "GROWING")
             => /\ LockShared(t, r) => GrantedAtOnce(t, r, "LockShared", "SHARED")
                /\ LockExclusive(t, r)
                      => GrantedAtOnce(t, r, "LockExclusive", "EXCLUSIVE")]_vars

(***************************************************************************)
(*                      CLAIMS ABOUT THE LRU REPLACER                      *)
(***************************************************************************)

\* The element of the list whose most recent Insert is the earliest.
EarliestInserted(s) ==
    CHOOSE x \in Range(s) : \A y \in Range(s) : stamp[x] <= stamp[y]

\* C8: Victim on a non-empty replacer removes and returns the element whose
\* most recent Insert is the earliest among those present (each element is
\* present once); on an empty replacer it returns absent and changes nothing.
C8_VictimIsLeastRecentlyInserted ==
    [][lruRet'.op = "Victim" =>
         IF vec_ = <<>>
         THEN ~lruRet'.ok /\ vec_' = vec_
         ELSE /\ lruRet'.ok
              /\ lruRet'.value = EarliestInserted(vec_)
              /\ Range(vec_') = Range(vec_) \ {lruRet'.value}
              /\ Len(vec_') = Cardinality(Range(vec_'))
              /\ Len(vec_') = Len(vec_) - 1]_vars

\* A Victim call returned an element that had been inserted more than once,
\* from a replacer that still holds elements inserted after it.
C8_Witness ==
    /\ lruRet.op = "Victim" /\ lruRet.ok
    /\ stamp[lruRet.value] > 1
    /\ \E y \in Range(vec_) : stamp[y] > stamp[lruRet.value]
    /\ clock > Len(vec_) + 1

(***************************************************************************)
(*                       CLAIMS ABOUT THE HASH TABLE                       *)
(***************************************************************************)

\* C4: after any sequence of Insert and Remove calls, Find(k) returns the
\* value of the most recent Insert(k, .) not followed by Remove(k), also when
\* k was bound to another value at that Insert, and absence for other keys.
C4_FindReturnsLatestInsert ==
    ht.status = "ok" =>
        \A k \in Keys :
            Find(ht, k) = [found |-> ref[k] # Absent, value |-> ref[k]]

\* The three Inserts of the scenario have been made, and nothing else, on a
\* table constructed with bucketSize = 2.
ScriptDone == hashRet.step = Len(Script) /\ ht.bucketSize = 2

ScriptFound ==
    \A i \in 1..Len(Script) :
        Find(ht, Script[i]) = [found |-> TRUE, value |-> ref[Script[i]]]

\* C14 as the spec states it: with bucketSize = 2, after Insert of keys with
\* hashes 0b00, 0b10 and 0b01 in this order into a fresh table, GlobalDepth
\* is 2, NumBuckets is 3, and Find returns each inserted value.
C14_ThreeInsertsSplit ==
    ScriptDone => ht.status = "ok" /\ ht.I = 2 /\ NumBuckets(ht) = 3 /\ ScriptFound

\* C14, amended: the third key goes to the empty bucket 1 and no bucket is
\* ever full at an Insert, so the table keeps GlobalDepth 1 and its two
\* buckets, and Find returns each inserted value.
C14_ThreeInsertsNoSplit ==
    ScriptDone => ht.status = "ok" /\ ht.I = 1 /\ NumBuckets(ht) = 2 /\ ScriptFound

C14_Witness ==
    /\ ScriptDone
    /\ hashRet.op = "Insert"
    /\ DOMAIN ht.buckets[0] = {0, 2}
    /\ DOMAIN ht.buckets[1] = {1}

\* The keys bound in a table that has seen Inserts only.
Inserted == {k \in Keys : ref[k] # Absent}

\* The number of hash bits needed to tell the keys of S apart so that no
\* bucket of capacity n overflows: the least depth d >= 1 at which at most n
\* keys of S agree on their d low bits.
Separated(S, n, d) ==
    \A slot \in 0..(2^d - 1) : Cardinality({k \in S : k % 2^d = slot}) <= n
BitsNeeded(S, n) ==
    CHOOSE d \in 1..MaxDepth :
        Separated(S, n, d) /\ \A e \in 1..(d - 1) : ~Separated(S, n, e)

\* C15: for every bucketSize >= 1, in a run of Inserts of keys with pairwise
\* distinct hash values each Insert terminates with its key stored, and the
\* global depth never exceeds the number of hash bits needed to separate the
\* keys. An Insert that does not terminate shows as status "overflow": its
\* split loop asks for a directory deeper than MaxDepth, which tells all
\* keys apart. The runs in which an out-of-bounds write of Split kills the
\* program are left aside: the claim fails without them.
C15_InsertTerminatesWithinNeededDepth ==
    [][\A k \in Keys, v \in Values :
          (hashRet.distinct /\ ref[k] = Absent /\ HashInsert(k, v)
                /\ ht'.status # "crashed")
             => /\ ht'.status = "ok"
                /\ Find(ht', k) = [found |-> TRUE, value |-> v]
                /\ ht'.I <= BitsNeeded(Inserted \cup {k}, ht.bucketSize)]_vars

\* C20: after any sequence of Insert and Remove calls the table has at most
\* 2^I buckets, and every bucket b, also one created by a split, has a local
\* depth recorded in J (b is an index of the vector J) with J[b] <= I.
\* Stated of the states in which every call has returned.
C20_DepthsRecordedAndBounded ==
    ht.status = "ok" =>
        /\ NumBuckets(ht) <= 2^ht.I
        /\ \A b \in DOMAIN ht.buckets : b < JSize /\ ht.J[b] <= ht.I

\* The directory slots that point to bucket b.
SlotsOf(h, b) == {i \in DOMAIN h.Dir : h.Dir[i] = b}

\* The directory of h is well formed: 2^I slots, each a bucket index, and two
\* slots of one bucket b agree in their low J[b] bits.
DirWellFormed(h) ==
    /\ DOMAIN h.Dir = 0..(2^h.I - 1)
    /\ \A i \in DOMAIN h.Dir : h.Dir[i] \in DOMAIN h.buckets
    /\ \A b \in DOMAIN h.buckets : \A i \in SlotsOf(h, b), j \in SlotsOf(h, b) :
          i % 2^h.J[b] = j % 2^h.J[b]

\* The split InsertAux makes first for key k is right: it hands to the new
\* bucket exactly the slots of the split bucket b whose bit J[b] (old value)
\* is set, and leaves the slots of every other bucket as they were (in a
\* doubled directory, as the copies of the old slots).
SplitRedirectsSiblings(h, k) ==
    LET s == HashKey(h, k)
        b == h.Dir[s]
        nb == NumBuckets(h)
        g == Split(h, s, "lands")
        was(i) == h.Dir[i % h.dirSize]
    IN  \A i \in DOMAIN g.Dir :
            g.Dir[i] = IF was(i) = b /\ (i \div 2^h.J[b]) % 2 = 1
                       THEN nb ELSE was(i)

\* C21: in every reachable state of the table the directory has exactly 2^I
\* slots, each holding a valid bucket index, and two slots of one bucket b
\* agree in their low J[b] bits; and the split made for a key whose bucket b
\* is full redirects to the new bucket exactly the slots of b whose bit J[b]
\* (old value) is set, leaving the slots of every other bucket unchanged.
\* Stated of the states in which every call has returned.
C21_DirectoryWellFormedSplitExact ==
    ht.status = "ok" =>
        /\ DirWellFormed(ht)
        /\ \A k \in Keys :
              BucketFull(ht, ht.Dir[HashKey(ht, k)])
                  => SplitRedirectsSiblings(ht, k)

(***************************************************************************)
(*                       CLAIMS ABOUT THE BUFFER POOL                      *)
(***************************************************************************)

AllPinned == \A f \in Frames : pages_[f].pin_count_ > 0

\* C2: neither FetchPage nor NewPage ever rebinds a frame whose pin count is
\* greater than 0 to a different page id; when every frame is pinned,
\* FetchPage of a non-resident page and NewPage both return absent.
C2_PinnedFrameNeverRebound ==
    [][/\ poolLast'.op \in {"FetchPage", "NewPage"} =>
            \A f \in Frames :
                pages_[f].pin_count_ > 0 => pages_'[f].page_id_ = pages_[f].page_id_
       /\ (/\ AllPinned
           /\ \/ poolLast'.op = "NewPage"
              \/ /\ poolLast'.op = "FetchPage"
                 /\ poolLast'.pid # INVALID_PAGE_ID
                 /\ ~PTFind(poolLast'.pid).found) => ~poolLast'.ok]_vars

\* C3: a successful UnpinPage(pid, d) sets the frame's dirty flag to
\* (old flag OR d); UnpinPage(pid, false) leaves a true flag true.
C3_UnpinOrsDirty ==
    [][(poolLast'.op = "UnpinPage" /\ poolLast'.ok) =>
          pages_'[poolLast'.frame].is_dirty_ =
              (pages_[poolLast'.frame].is_dirty_ \/ poolLast'.dirty)]_vars

\* The last call was a FetchPage or NewPage that gave a frame a new page.
Repurposed ==
    /\ poolLast.op \in {"FetchPage", "NewPage"}
    /\ poolLast.ok
    /\ poolLast.from \in {"free", "victim"}

WriteEvents == {i \in 1..Len(poolLast.events) : poolLast.events[i].e = "WritePage"}
RebindEvents ==
    {i \in 1..Len(poolLast.events) :
        poolLast.events[i].e \in {"Remove", "Insert", "SetPageId", "ReadPage", "ResetMemory"}}

\* C9: repurposing a victim whose dirty flag is set calls WritePage exactly
\* once, with the victim's old page id, before the frame is rebound and
\* before the new page is read or zeroed; a clean victim or a free-list
\* frame triggers no WritePage. In the scenario (pool size 2: NewPage,
\* Unpin(p1, true), NewPage, Unpin(p2, false), NewPage) exactly one
\* WritePage(p1) occurs and the victim is p1's frame.
C9_DirtyVictimWrittenBackFirst ==
    /\ Repurposed =>
          IF poolLast.from = "victim" /\ poolLast.before.is_dirty_
          THEN /\ Cardinality(WriteEvents) = 1
               /\ \A i \in WriteEvents :
                     /\ poolLast.events[i].pid = poolLast.before.page_id_
                     /\ \A j \in RebindEvents : i < j
          ELSE WriteEvents = {}
    /\ (pool_size_ = 2 /\ scen.step = 5) =>
          /\ scen.writes = <<scen.pids[1]>>
          /\ poolLast.ok /\ poolLast.from = "victim"
          /\ poolLast.before.page_id_ = scen.pids[1]
          /\ poolLast.frame = 0

\* The scenario has run to its end and its last NewPage evicted a dirty frame.
C9_Witness ==
    /\ pool_size_ = 2 /\ scen.step = 5
    /\ Repurposed /\ poolLast.from = "victim" /\ poolLast.before.is_dirty_

\* C16: in every reachable state of the pool, every frame with pin_count > 0
\* is absent from the LRU replacer, also a frame that DeletePage put on the
\* free list and that was handed out again from there.
C16_PinnedFrameNotInReplacer ==
    \A f \in Frames : pages_[f].pin_count_ > 0 => f \notin Range(replacer_)

\* The frames the page table binds under page id pid.
BoundUnder(pid) ==
    IF PTFind(pid).found THEN {PTFind(pid).value} ELSE {}
\* The page ids the page table binds.
Resident == {pid \in 0..(NumPageIds - 1) : PTFind(pid).found}

\* C17: in every reachable state of the pool, the page table maps each
\* resident page id to exactly one frame whose page_id_ equals that id, no
\* frame is bound under two page ids, a frame is bound in the page table iff
\* its page_id_ is not INVALID_PAGE_ID, and no frame of the free list is
\* bound in the page table.
C17_PageTableMatchesFrames ==
    /\ \A pid \in Resident :
          /\ PTFind(pid).value \in Frames
          /\ pages_[PTFind(pid).value].page_id_ = pid
    /\ \A p \in Resident, q \in Resident :
          PTFind(p).value = PTFind(q).value => p = q
    /\ \A f \in Frames :
          (\E pid \in Resident : PTFind(pid).value = f)
              <=> pages_[f].page_id_ # INVALID_PAGE_ID
    /\ \A f \in Range(free_list_) :
          ~\E pid \in Resident : PTFind(pid).value = f

\* A victim that held another page has been rebound in a pool of two frames:
\* the page table binds two pages, one of them in the frame just taken from
\* the replacer, while the other frame is on the free list or bound.
C17_Witness ==
    /\ pool_size_ = 2
    /\ poolLast.op \in {"FetchPage", "NewPage"} /\ poolLast.ok
    /\ poolLast.from = "victim"
    /\ poolLast.before.page_id_ # INVALID_PAGE_ID
    /\ pages_[poolLast.frame].page_id_ # poolLast.before.page_id_
    /\ Cardinality(Resident) = 2

====
